---- MODULE Spec2Model ----
(***************************************************************************)
(* MultiInterface (holoviews/core/data/multipath.py): a dataset whose data *)
(* is a list of tabular "paths".  Every query builds a single-table proxy  *)
(* (template), rebinds its data to each path in turn, asks the path's      *)
(* tabular interface and aggregates the per-path answers.                  *)
(*                                                                         *)
(* Encoding.  A table is a sequence of rows, a row a tuple of integers,    *)
(* one per column.  Python's None is the empty tuple and an optional       *)
(* integer v is <<v>>.  The outcome of a call is a record: Ok(v) for a     *)
(* returned value, Raise(e) for a raised exception.  A NumPy array is a    *)
(* record that says whether its elements are scalars or arrays.            *)
(***************************************************************************)
EXTENDS Integers, Sequences, FiniteSets, TLC

VARIABLES dataset, ds, call, result

vars == <<dataset, ds, call, result>>

-----------------------------------------------------------------------------
(* Bounds and input sets *)

MaxPaths == 3

None == <<>>

Ok(v) == [ok |-> TRUE, val |-> v, err |-> ""]

Raise(e) == [ok |-> FALSE, val |-> <<>>, err |-> e]

Num(v) == [nan |-> FALSE, v |-> v]

NaN == [nan |-> TRUE, v |-> 0]

Array(items) == [elems |-> "scalar", items |-> items]

\* Sample tables with columns (x, z): two rows with x in 0..5, three rows
\* with x in 3..10 and a repeated z, and no rows.
Tables ==
    { << <<0, 1>>, <<5, 2>> >>,
      << <<3, 2>>, <<10, 2>>, <<7, 4>> >>,
      << >> }

RECURSIVE SeqsUpTo(_, _)
SeqsUpTo(S, n) ==
    IF n = 0 THEN { << >> }
    ELSE LET shorter == SeqsUpTo(S, n - 1)
         IN shorter \cup { Append(s, e) : s \in { t \in shorter : Len(t) = n - 1 }, e \in S }

LevelArgs == { None, <<7>> }

DimArgs == { "x", "z", "w" }

SelectionArgs == { << >>, << [dim |-> "x", val |-> 3] >>, << [dim |-> "z", val |-> 2] >>,
                   << [dim |-> "w", val |-> 0] >> }

RedimArgs == { [x |-> "a"], [z |-> "b"] }

StartArgs == { None } \cup { <<k>> : k \in (0 - 1) .. 1 }

EndArgs == { None } \cup { <<k>> : k \in { 0 - 1, 0, 1, 2, MaxPaths, MaxPaths + 1 } }

-----------------------------------------------------------------------------
(* The tabular interfaces the proxy delegates to (one table at a time) *)

subtypes == << "dataframe", "dictionary", "array", "dask" >>

Dataset(data, kdims, vdims) ==
    [bound |-> TRUE, data |-> data, kdims |-> kdims, vdims |-> vdims]

NoProxy == [bound |-> FALSE, data |-> << >>, kdims |-> << >>, vdims |-> << >>]

dimensions(d) == d.kdims \o d.vdims

get_dimension_index(d, dim) ==
    LET dims == dimensions(d)
        hits == { i \in 1 .. Len(dims) : dims[i] = dim }
    IN IF hits = {} THEN 0 ELSE CHOOSE i \in hits : \A j \in hits : i <= j

get_dimension(d, dim) ==
    IF get_dimension_index(d, dim) = 0 THEN "None" ELSE dim

Column(table, idx) == [i \in 1 .. Len(table) |-> table[i][idx]]

\* Every table is laid out with one column per declared dimension.
eltype == [kdims |-> << "x" >>, vdims |-> << "z" >>]

NCols(table) == Len(eltype.kdims \o eltype.vdims)

RECURSIVE unique_array(_)
unique_array(s) ==
    IF s = << >> THEN << >>
    ELSE LET front == unique_array(SubSeq(s, 1, Len(s) - 1))
             last == s[Len(s)]
         IN IF \E i \in 1 .. Len(front) : front[i] = last THEN front
            ELSE Append(front, last)

IfaceLength(p) == Ok(Len(p.data))

IfaceShape(p) == Ok(<<Len(p.data), NCols(p.data)>>)

IfaceValues(p, dim, expanded, flat) ==
    LET idx == get_dimension_index(p, dim)
    IN IF idx = 0 THEN Raise("BackendError")
       ELSE LET col == Column(p.data, idx)
                vals == IF expanded THEN col ELSE unique_array(col)
            IN Ok(Array([i \in 1 .. Len(vals) |-> Num(vals[i])]))

SetMin(S) == CHOOSE m \in S : \A e \in S : m <= e

SetMax(S) == CHOOSE m \in S : \A e \in S : e <= m

IfaceRange(p, dim) ==
    LET idx == get_dimension_index(p, dim)
    IN IF idx = 0 THEN Raise("BackendError")
       ELSE LET col == { p.data[i][idx] : i \in 1 .. Len(p.data) }
            IN IF col = {} THEN Ok(<<None, None>>)
               ELSE Ok(<< <<SetMin(col)>>, <<SetMax(col)>> >>)

IfaceSelect(p, selection) ==
    IF \E k \in 1 .. Len(selection) :
           get_dimension_index(p, selection[k].dim) = 0
    THEN Raise("BackendError")
    ELSE LET Keep(row) == \A k \in 1 .. Len(selection) :
                 row[get_dimension_index(p, selection[k].dim)] = selection[k].val
         IN Ok(SelectSeq(p.data, Keep))

IfaceRedim(p, dims) == Ok(p.data)

IfaceDimensionType(p, dim) ==
    IF get_dimension_index(p, dim) = 0 THEN Raise("BackendError") ELSE Ok("int")

max_range(ranges) ==
    LET mins == { ranges[i][1][1] : i \in { j \in 1 .. Len(ranges) : ranges[j][1] # None } }
        maxs == { ranges[i][2][1] : i \in { j \in 1 .. Len(ranges) : ranges[j][2] # None } }
    IN << IF mins = {} THEN None ELSE <<SetMin(mins)>>,
          IF maxs = {} THEN None ELSE <<SetMax(maxs)>> >>

RECURSIVE concatenate(_)
concatenate(arrays) ==
    IF arrays = << >> THEN << >>
    ELSE arrays[1] \o concatenate(Tail(arrays))

PySlice(s, start, end) ==
    LET n == Len(s)
        Clamp(i) == IF i < 0 THEN (IF n + i < 0 THEN 0 ELSE n + i)
                    ELSE (IF i > n THEN n ELSE i)
        lo == IF start = None THEN 0 ELSE Clamp(start[1])
        hi == IF end = None THEN n ELSE Clamp(end[1])
    IN SubSeq(s, lo + 1, hi)

clone(d, data) == [d EXCEPT !.data = data, !.datatype = subtypes]

-----------------------------------------------------------------------------
(* MultiInterface.  The heap st holds the composite and the proxy of the   *)
(* running call; every method returns the heap it leaves and its outcome.  *)

Heap(d, p) == [dataset |-> d, ds |-> p]

Return(st, res) == [st |-> st, res |-> res]

\* Mutant: the proxy shares the composite's first path, so rebinding it
\* overwrites that path.
SetData_aliased(st, d) == [st EXCEPT !.ds.data = d, !.dataset.data[1] = d]

\* ds.data = d
SetData(st, d) == [st EXCEPT !.ds.data = d]

template(d) ==
    LET vdims == IF d.level = None THEN d.vdims ELSE << >>
    IN IF d.data = << >> THEN Raise("IndexError")
       ELSE Ok(Dataset(d.data[1], d.kdims, vdims))

dimension_type(st, dim) ==
    IF st.dataset.data = << >> THEN Return(st, Ok("float"))
    ELSE LET s0 == [st EXCEPT !.ds = template(st.dataset).val]
         IN Return(s0, IfaceDimensionType(s0.ds, dim))

\* Mutant: the proxy is never rebound, so every range is the first path's.
RECURSIVE range_loop_noRebind(_, _, _, _)
range_loop_noRebind(st, i, dim, ranges) ==
    IF i > Len(st.dataset.data) THEN Return(st, Ok(max_range(ranges)))
    ELSE LET r == IfaceRange(st.ds, dim)
         IN IF ~r.ok THEN Return(st, r)
            ELSE range_loop_noRebind(st, i + 1, dim, Append(ranges, r.val))

RECURSIVE range_loop(_, _, _, _)
range_loop(st, i, dim, ranges) ==
    IF i > Len(st.dataset.data) THEN Return(st, Ok(max_range(ranges)))
    ELSE LET s1 == SetData(st, st.dataset.data[i])
             r == IfaceRange(s1.ds, dim)
         IN IF ~r.ok THEN Return(s1, r)
            ELSE range_loop(s1, i + 1, dim, Append(ranges, r.val))

\* Mutant: the level override is forgotten.
range_noLevel(st, dimArg) ==
    IF st.dataset.data = << >> THEN Return(st, Ok(<<None, None>>))
    ELSE range_loop([st EXCEPT !.ds = template(st.dataset).val], 1,
                    get_dimension(st.dataset, dimArg), << >>)

range(st, dimArg) ==
    IF st.dataset.data = << >> THEN Return(st, Ok(<<None, None>>))
    ELSE LET s0 == [st EXCEPT !.ds = template(st.dataset).val]
             level == st.dataset.level
             dim == get_dimension(st.dataset, dimArg)
         IN IF level # None /\ st.dataset.vdims = << >> THEN Return(s0, Raise("IndexError"))
            ELSE IF level # None /\ dim = st.dataset.vdims[1]
                 THEN Return(s0, Ok(<<level, level>>))
                 ELSE range_loop(s0, 1, dim, << >>)

RECURSIVE select_loop(_, _, _, _)
select_loop(st, i, selection, data) ==
    IF i > Len(st.dataset.data) THEN Return(st, Ok(data))
    ELSE LET s1 == SetData(st, st.dataset.data[i])
             sel == IfaceSelect(s1.ds, selection)
         IN IF ~sel.ok THEN Return(s1, sel)
            ELSE select_loop(s1, i + 1, selection, Append(data, sel.val))

select(st, selection) ==
    LET t == template(st.dataset)
    IN IF ~t.ok THEN Return(st, t)
       ELSE select_loop([st EXCEPT !.ds = t.val], 1, selection, << >>)

\* Mutant: an empty composite aggregates to an empty result.
aggregate_emptyOk(st) ==
    IF st.dataset.data = << >> THEN Return(st, Ok(<< >>))
    ELSE Return(st, Raise("NotImplementedError"))

aggregate(st) == Return(st, Raise("NotImplementedError"))

groupby(st) == Return(st, Raise("NotImplementedError"))

sample(st) == Return(st, Raise("NotImplementedError"))

RECURSIVE shape_loop(_, _, _, _)
shape_loop(st, i, rows, cols) ==
    IF i > Len(st.dataset.data) THEN Return(st, Ok(<<rows + Len(st.dataset.data) - 1, cols>>))
    ELSE LET s1 == SetData(st, st.dataset.data[i])
             rc == IfaceShape(s1.ds)
         IN IF ~rc.ok THEN Return(s1, rc)
            ELSE shape_loop(s1, i + 1, rows + rc.val[1], rc.val[2])

shape(st) ==
    IF st.dataset.data = << >> THEN Return(st, Ok(<<0, Len(dimensions(st.dataset))>>))
    ELSE shape_loop([st EXCEPT !.ds = template(st.dataset).val], 1, 0, 0)

RECURSIVE length_loop(_, _, _)
length_loop(st, i, len) ==
    IF i > Len(st.dataset.data) THEN Return(st, Ok(len + Len(st.dataset.data) - 1))
    ELSE LET s1 == SetData(st, st.dataset.data[i])
             l == IfaceLength(s1.ds)
         IN IF ~l.ok THEN Return(s1, l)
            ELSE length_loop(s1, i + 1, len + l.val)

\* Mutant: the separator rows are not counted.
length_noSeparators(st) ==
    IF st.dataset.data = << >> THEN Return(st, Ok(0))
    ELSE LET r == length_loop([st EXCEPT !.ds = template(st.dataset).val], 1, 0)
         IN Return(r.st, Ok(r.res.val - (Len(st.dataset.data) - 1)))

length(st) ==
    IF st.dataset.data = << >> THEN Return(st, Ok(0))
    ELSE length_loop([st EXCEPT !.ds = template(st.dataset).val], 1, 0)

nonzero(st) ==
    LET l == length(st)
    IN IF ~l.res.ok THEN l ELSE Return(l.st, Ok(l.res.val # 0))

RECURSIVE redim_loop(_, _, _, _)
redim_loop(st, i, dims, new_data) ==
    IF i > Len(st.dataset.data) THEN Return(st, Ok(new_data))
    ELSE LET s1 == SetData(st, st.dataset.data[i])
             r == IfaceRedim(s1.ds, dims)
         IN IF ~r.ok THEN Return(s1, r)
            ELSE redim_loop(s1, i + 1, dims, Append(new_data, r.val))

redim(st, dims) ==
    IF st.dataset.data = << >> THEN Return(st, Ok(st.dataset.data))
    ELSE redim_loop([st EXCEPT !.ds = template(st.dataset).val], 1, dims, << >>)

\* Mutant: the break after the last path is kept.
RECURSIVE values_loop_trailingBreak(_, _, _, _, _, _)
values_loop_trailingBreak(st, i, dimension, expanded, flat, vals) ==
    IF i > Len(st.dataset.data) THEN Return(st, Ok(Array(concatenate(vals))))
    ELSE LET s1 == SetData(st, st.dataset.data[i])
             v == IfaceValues(s1.ds, dimension, expanded, flat)
         IN IF ~v.ok THEN Return(s1, v)
            ELSE values_loop_trailingBreak(s1, i + 1, dimension, expanded, flat,
                     IF expanded THEN Append(Append(vals, v.val.items), <<NaN>>)
                     ELSE Append(vals, v.val.items))

\* Mutant: a break follows every path whether or not expanded is set.
RECURSIVE values_loop_alwaysBreak(_, _, _, _, _, _)
values_loop_alwaysBreak(st, i, dimension, expanded, flat, vals) ==
    IF i > Len(st.dataset.data)
    THEN Return(st, Ok(Array(concatenate(IF expanded THEN SubSeq(vals, 1, Len(vals) - 1)
                                         ELSE vals))))
    ELSE LET s1 == SetData(st, st.dataset.data[i])
             v == IfaceValues(s1.ds, dimension, expanded, flat)
         IN IF ~v.ok THEN Return(s1, v)
            ELSE values_loop_alwaysBreak(s1, i + 1, dimension, expanded, flat,
                     Append(Append(vals, v.val.items), <<NaN>>))

RECURSIVE values_loop(_, _, _, _, _, _)
values_loop(st, i, dimension, expanded, flat, vals) ==
    IF i > Len(st.dataset.data)
    THEN Return(st, Ok(Array(concatenate(IF expanded THEN SubSeq(vals, 1, Len(vals) - 1)
                                         ELSE vals))))
    ELSE LET s1 == SetData(st, st.dataset.data[i])
             v == IfaceValues(s1.ds, dimension, expanded, flat)
         IN IF ~v.ok THEN Return(s1, v)
            ELSE values_loop(s1, i + 1, dimension, expanded, flat,
                             IF expanded THEN Append(Append(vals, v.val.items), <<NaN>>)
                             ELSE Append(vals, v.val.items))

values(st, dimension, expanded, flat) ==
    IF st.dataset.data = << >> THEN Return(st, Ok(Array(<< >>)))
    ELSE values_loop([st EXCEPT !.ds = template(st.dataset).val], 1,
                     dimension, expanded, flat, << >>)

\* Mutant: a closed shape is split like any other composite.
split_noShape(st, start, end) ==
    LET part == PySlice(st.dataset.data, start, end)
    IN Return(st, Ok([i \in 1 .. Len(part) |-> clone(st.dataset, part[i])]))

\* Mutant: each new dataset is put at the front of the result.
split_reversed(st, start, end) ==
    IF st.dataset.isShape THEN Return(st, Ok(<<st.dataset>>))
    ELSE LET part == PySlice(st.dataset.data, start, end)
         IN Return(st, Ok([i \in 1 .. Len(part) |->
                               clone(st.dataset, part[Len(part) + 1 - i])]))

split(st, start, end) ==
    IF st.dataset.isShape THEN Return(st, Ok(<<st.dataset>>))
    ELSE LET part == PySlice(st.dataset.data, start, end)
         IN Return(st, Ok([i \in 1 .. Len(part) |-> clone(st.dataset, part[i])]))

-----------------------------------------------------------------------------
(* The composite after construction, and one action per interface method *)

Composites ==
    { [data |-> paths, kdims |-> eltype.kdims, vdims |-> eltype.vdims,
       level |-> level, isShape |-> isShape, datatype |-> << "multi" >>] :
        paths \in SeqsUpTo(Tables, MaxPaths),
        level \in LevelArgs,
        isShape \in BOOLEAN }

Init ==
    /\ dataset \in { c \in Composites : c.isShape => c.level = None }
    /\ ds = NoProxy
    /\ call = [op |-> "init", args |-> << >>]
    /\ result = Ok(<< >>)

\* A call starts with no proxy of its own.
Start == Heap(dataset, NoProxy)

DimensionType ==
    \E dim \in DimArgs :
        LET r == dimension_type(Start, dim)
        IN /\ dataset' = r.st.dataset
           /\ ds' = r.st.ds
           /\ call' = [op |-> "dimension_type", args |-> <<dim>>]
           /\ result' = r.res

Range ==
    \E dim \in DimArgs :
        LET r == range(Start, dim)
        IN /\ dataset' = r.st.dataset
           /\ ds' = r.st.ds
           /\ call' = [op |-> "range", args |-> <<dim>>]
           /\ result' = r.res

Select ==
    \E selection \in SelectionArgs :
        LET r == select(Start, selection)
        IN /\ dataset' = r.st.dataset
           /\ ds' = r.st.ds
           /\ call' = [op |-> "select", args |-> <<selection>>]
           /\ result' = r.res

Aggregate ==
    LET r == aggregate(Start)
    IN /\ dataset' = r.st.dataset
       /\ ds' = r.st.ds
       /\ call' = [op |-> "aggregate", args |-> << >>]
       /\ result' = r.res

Groupby ==
    LET r == groupby(Start)
    IN /\ dataset' = r.st.dataset
       /\ ds' = r.st.ds
       /\ call' = [op |-> "groupby", args |-> << >>]
       /\ result' = r.res

Sample ==
    LET r == sample(Start)
    IN /\ dataset' = r.st.dataset
       /\ ds' = r.st.ds
       /\ call' = [op |-> "sample", args |-> << >>]
       /\ result' = r.res

Shape ==
    LET r == shape(Start)
    IN /\ dataset' = r.st.dataset
       /\ ds' = r.st.ds
       /\ call' = [op |-> "shape", args |-> << >>]
       /\ result' = r.res

Length ==
    LET r == length(Start)
    IN /\ dataset' = r.st.dataset
       /\ ds' = r.st.ds
       /\ call' = [op |-> "length", args |-> << >>]
       /\ result' = r.res

Nonzero ==
    LET r == nonzero(Start)
    IN /\ dataset' = r.st.dataset
       /\ ds' = r.st.ds
       /\ call' = [op |-> "nonzero", args |-> << >>]
       /\ result' = r.res

Redim ==
    \E dims \in RedimArgs :
        LET r == redim(Start, dims)
        IN /\ dataset' = r.st.dataset
           /\ ds' = r.st.ds
           /\ call' = [op |-> "redim", args |-> <<dims>>]
           /\ result' = r.res

Values ==
    \E dim \in DimArgs, expanded \in BOOLEAN, flat \in BOOLEAN :
        LET r == values(Start, dim, expanded, flat)
        IN /\ dataset' = r.st.dataset
           /\ ds' = r.st.ds
           /\ call' = [op |-> "values", args |-> <<dim, expanded, flat>>]
           /\ result' = r.res

Split ==
    \E start \in StartArgs, end \in EndArgs :
        LET r == split(Start, start, end)
        IN /\ dataset' = r.st.dataset
           /\ ds' = r.st.ds
           /\ call' = [op |-> "split", args |-> <<start, end>>]
           /\ result' = r.res

Next ==
    \/ DimensionType
    \/ Range
    \/ Select
    \/ Aggregate
    \/ Groupby
    \/ Sample
    \/ Shape
    \/ Length
    \/ Nonzero
    \/ Redim
    \/ Values
    \/ Split

Spec == Init /\ [][Next]_vars

-----------------------------------------------------------------------------
(* What the properties speak about: the composite's paths one at a time,   *)
(* each seen through the proxy's dimensions by its own tabular interface.  *)

n == Len(dataset.data)

PathProxy(i) ==
    Dataset(dataset.data[i], dataset.kdims,
            IF dataset.level = None THEN dataset.vdims ELSE << >>)

PathRows(i) == IfaceLength(PathProxy(i)).val

PathValues(i, dim, expanded, flat) == IfaceValues(PathProxy(i), dim, expanded, flat)

PathRange(i, dim) == IfaceRange(PathProxy(i), dim)

RECURSIVE SumRows(_)
SumRows(k) == IF k = 0 THEN 0 ELSE SumRows(k - 1) + PathRows(k)

ExpectedRows == IF n = 0 THEN 0 ELSE SumRows(n) + (n - 1)

\* C1: length and the row component of shape are the sum of the per-path
\* row counts plus one separator row between consecutive paths (n - 1 of
\* them), 0 for no paths; an empty composite has shape
\* (0, len(kdims) + len(vdims)).
C1_SeparatorRows ==
    /\ call.op = "length" => result.ok /\ result.val = ExpectedRows
    /\ call.op = "shape" =>
          /\ result.ok
          /\ result.val[1] = ExpectedRows
          /\ n = 0 => result.val = <<0, Len(dataset.kdims) + Len(dataset.vdims)>>

C1_Witness ==
    /\ call.op = "shape"
    /\ n = 3
    /\ SumRows(n) = 5
    /\ result.val[1] = 7

-----------------------------------------------------------------------------

ValuesOk(dim, expanded, flat) ==
    \A i \in 1 .. n : PathValues(i, dim, expanded, flat).ok

RECURSIVE SumCounts(_, _, _, _)
SumCounts(k, dim, expanded, flat) ==
    IF k = 0 THEN 0
    ELSE SumCounts(k - 1, dim, expanded, flat)
         + Len(PathValues(k, dim, expanded, flat).val.items)

\* Paths 1..k joined with one break between consecutive paths.
RECURSIVE Joined(_, _, _)
Joined(k, dim, flat) ==
    IF k = 0 THEN << >>
    ELSE IF k = 1 THEN PathValues(1, dim, TRUE, flat).val.items
    ELSE Joined(k - 1, dim, flat) \o <<NaN>> \o PathValues(k, dim, TRUE, flat).val.items

Breaks(items) == Cardinality({ i \in 1 .. Len(items) : items[i].nan })

\* C2: values(dim, expanded=True) is the per-path value sequences in path
\* order with exactly one NaN between consecutive paths and none after the
\* last, so it holds sum(per-path counts) + (n - 1) entries, as many as
\* length(dataset) when every path has one value per row; no paths give the
\* empty sequence.  A path whose interface raises makes the call raise.
C2_ExpandedValues ==
    (call.op = "values" /\ call.args[2]) =>
        LET dim == call.args[1]
            flat == call.args[3]
        IN IF n = 0 THEN result.ok /\ result.val = Array(<< >>)
           ELSE IF ValuesOk(dim, TRUE, flat)
                THEN /\ result.ok
                     /\ result.val.elems = "scalar"
                     /\ result.val.items = Joined(n, dim, flat)
                     /\ Len(result.val.items) = SumCounts(n, dim, TRUE, flat) + (n - 1)
                     /\ Breaks(result.val.items) = n - 1
                     /\ PathValues(n, dim, TRUE, flat).val.items # << >>
                            => ~result.val.items[Len(result.val.items)].nan
                     /\ SumCounts(n, dim, TRUE, flat) = SumRows(n)
                            => Len(result.val.items) = ExpectedRows
                ELSE ~result.ok

C2_Witness ==
    /\ call.op = "values"
    /\ call.args[2]
    /\ n = 3
    /\ \A i \in 1 .. n : PathRows(i) > 0
    /\ result.ok
    /\ Breaks(result.val.items) = 2

-----------------------------------------------------------------------------

RECURSIVE Flattened(_, _, _)
Flattened(k, dim, flat) ==
    IF k = 0 THEN << >>
    ELSE Flattened(k - 1, dim, flat) \o PathValues(k, dim, FALSE, flat).val.items

\* C3 as claimed: with expanded=False the result has one entry per path, in
\* path order, the i-th entry being the interface's value array for path i.
C3_PerPathArrays ==
    (call.op = "values" /\ ~call.args[2] /\ result.ok) =>
        /\ result.val.elems = "array"
        /\ Len(result.val.items) = n
        /\ \A i \in 1 .. n :
               result.val.items[i] = PathValues(i, call.args[1], FALSE, call.args[3]).val

\* C3 as amended: with expanded=False, values(dim) is one flat sequence, the
\* per-path value arrays concatenated in path order with no break-sentinel
\* inserted, so it holds sum(per-path counts) entries and not one per path.
C3_ConcatenatedValues ==
    (call.op = "values" /\ ~call.args[2]) =>
        LET dim == call.args[1]
            flat == call.args[3]
        IN IF n = 0 THEN result.ok /\ result.val = Array(<< >>)
           ELSE IF ValuesOk(dim, FALSE, flat)
                THEN /\ result.ok
                     /\ result.val.elems = "scalar"
                     /\ result.val.items = Flattened(n, dim, flat)
                     /\ Len(result.val.items) = SumCounts(n, dim, FALSE, flat)
                     /\ Breaks(result.val.items) = 0
                ELSE ~result.ok

C3_Witness ==
    /\ call.op = "values"
    /\ ~call.args[2]
    /\ n = 2
    /\ result.ok
    /\ Len(result.val.items) = 4

-----------------------------------------------------------------------------

LevelApplies(dim) ==
    /\ dataset.level # None
    /\ dataset.vdims # << >>
    /\ dim = dataset.vdims[1]

\* C4 as claimed: with the level set and the first value dimension queried,
\* range is (level, level) whatever the number of paths.
C4_LevelAlways ==
    (call.op = "range" /\ LevelApplies(call.args[1])) =>
        result.ok /\ result.val = <<dataset.level, dataset.level>>

\* C4 as amended: with the level set and the first value dimension queried,
\* range is (level, level) for every composite of at least one path,
\* whatever the paths hold; with no paths it is (None, None).
C4_LevelOverride ==
    (call.op = "range" /\ LevelApplies(call.args[1])) =>
        /\ result.ok
        /\ n > 0 => result.val = <<dataset.level, dataset.level>>
        /\ n = 0 => result.val = <<None, None>>

C4_Witness ==
    /\ call.op = "range"
    /\ LevelApplies(call.args[1])
    /\ n = 2
    /\ result.val = <<dataset.level, dataset.level>>

-----------------------------------------------------------------------------

RangesOk(dim) == \A i \in 1 .. n : PathRange(i, dim).ok

PathMins(dim) ==
    { PathRange(i, dim).val[1][1] : i \in { j \in 1 .. n : PathRange(j, dim).val[1] # None } }

PathMaxs(dim) ==
    { PathRange(i, dim).val[2][1] : i \in { j \in 1 .. n : PathRange(j, dim).val[2] # None } }

\* C5: where the level override does not apply, range(dim) of n > 0 paths
\* spans the per-path ranges: its minimum is the least per-path minimum and
\* its maximum the greatest per-path maximum, None entries ignored unless
\* all are None; with no paths it is (None, None) for any dimension.  A path
\* whose interface raises makes the call raise.
C5_RangeMerge ==
    call.op = "range" =>
        LET dim == call.args[1]
        IN IF n = 0 THEN result.ok /\ result.val = <<None, None>>
           ELSE IF LevelApplies(dim) THEN TRUE
           ELSE IF RangesOk(dim)
                THEN /\ result.ok
                     /\ IF PathMins(dim) = {} THEN result.val[1] = None
                        ELSE /\ result.val[1] # None
                             /\ result.val[1][1] \in PathMins(dim)
                             /\ \A m \in PathMins(dim) : result.val[1][1] <= m
                     /\ IF PathMaxs(dim) = {} THEN result.val[2] = None
                        ELSE /\ result.val[2] # None
                             /\ result.val[2][1] \in PathMaxs(dim)
                             /\ \A m \in PathMaxs(dim) : m <= result.val[2][1]
                ELSE ~result.ok

\* Paths with x ranges (0, 5) and (3, 10) give (0, 10).
C5_Witness ==
    /\ call.op = "range"
    /\ call.args[1] = "x"
    /\ n = 2
    /\ PathRange(1, "x").val = << <<0>>, <<5>> >>
    /\ PathRange(2, "x").val = << <<3>>, <<10>> >>
    /\ result.val = << <<0>>, <<10>> >>

-----------------------------------------------------------------------------

PathSelect(i, selection) == IfaceSelect(PathProxy(i), selection)

PathRedim(i, dims) == IfaceRedim(PathProxy(i), dims)

\* C6: select and redim return exactly one result per path in path order,
\* for every composite of n >= 0 paths: the list has n entries and the i-th
\* is the interface's select (redim) result on path i alone.
C6_OnePerPath ==
    /\ (call.op = "select" /\ \A i \in 1 .. n : PathSelect(i, call.args[1]).ok) =>
          /\ result.ok
          /\ Len(result.val) = n
          /\ \A i \in 1 .. n : result.val[i] = PathSelect(i, call.args[1]).val
    /\ (call.op = "redim" /\ \A i \in 1 .. n : PathRedim(i, call.args[1]).ok) =>
          /\ result.ok
          /\ Len(result.val) = n
          /\ \A i \in 1 .. n : result.val[i] = PathRedim(i, call.args[1]).val

-----------------------------------------------------------------------------

\* Python's s[start:end] on a list of len entries, as the 0-based indices it keeps.
SliceLo(start, len) ==
    IF start = None THEN 0
    ELSE IF start[1] >= len THEN len
    ELSE IF start[1] >= 0 THEN start[1]
    ELSE IF start[1] + len >= 0 THEN start[1] + len
    ELSE 0

SliceHi(end, len) == IF end = None THEN len ELSE SliceLo(end, len)

SliceKept(start, end, len) ==
    { k \in 0 .. len - 1 : SliceLo(start, len) <= k /\ k < SliceHi(end, len) }

\* C7: split of a composite that is not a closed shape returns one
\* single-table dataset per path of paths[start:end], in path order, each
\* wrapping exactly that path's data; split of a closed shape returns the
\* one-element list holding the composite itself, whatever start and end.
C7_Split ==
    call.op = "split" =>
        LET start == call.args[1]
            end == call.args[2]
        IN /\ result.ok
           /\ IF dataset.isShape THEN result.val = <<dataset>>
              ELSE /\ Len(result.val) = Cardinality(SliceKept(start, end, n))
                   /\ \A j \in 1 .. Len(result.val) :
                          /\ result.val[j].data = dataset.data[SliceLo(start, n) + j]
                          /\ result.val[j].datatype = subtypes
                          /\ result.val[j].kdims = dataset.kdims
                          /\ result.val[j].vdims = dataset.vdims

C7_Witness ==
    /\ call.op = "split"
    /\ ~dataset.isShape
    /\ n = 3
    /\ call.args[1] = <<1>>
    /\ call.args[2] = <<0 - 1>>
    /\ Len(result.val) = 1
    /\ result.val[1].data = dataset.data[2]

-----------------------------------------------------------------------------

\* The values of a single-table dataset, asked of its own interface.
TableValues(d, dim) == IfaceValues(Dataset(d.data, d.kdims, d.vdims), dim, TRUE, TRUE)

RECURSIVE Rejoined(_, _, _)
Rejoined(parts, k, dim) ==
    IF k = 0 THEN << >>
    ELSE IF k = 1 THEN TableValues(parts[1], dim).val.items
    ELSE Rejoined(parts, k - 1, dim) \o <<NaN>> \o TableValues(parts[k], dim).val.items

CompositeValues(dim) == values(Heap(dataset, NoProxy), dim, TRUE, TRUE).res

RoundTrip(parts) ==
    /\ Len(parts) = n
    /\ \A j \in 1 .. Len(parts) : parts[j].datatype = subtypes
    /\ \A dim \in DimArgs :
           CompositeValues(dim).ok =>
               Rejoined(parts, Len(parts), dim) = CompositeValues(dim).val.items

\* C8 as claimed: for any composite of n paths, split(dataset, 0, n) yields n
\* single-table datasets whose values, rejoined with one break between
\* consecutive datasets, are values(dim, expanded=True) of the composite.
C8_RoundTripAlways ==
    (call.op = "split" /\ call.args[1] = <<0>> /\ call.args[2] = <<n>>) =>
        result.ok /\ RoundTrip(result.val)

\* C8 as amended: for any composite of n paths that is not a closed shape,
\* split(dataset, 0, n) yields n single-table datasets whose values, rejoined
\* with one break between consecutive datasets, are
\* values(dim, expanded=True) of the composite.
C8_SplitRoundTrip ==
    (call.op = "split" /\ call.args[1] = <<0>> /\ call.args[2] = <<n>> /\ ~dataset.isShape) =>
        result.ok /\ RoundTrip(result.val)

C8_Witness ==
    /\ call.op = "split"
    /\ call.args[1] = <<0>>
    /\ call.args[2] = <<n>>
    /\ ~dataset.isShape
    /\ n = 3
    /\ Len(result.val) = 3
    /\ Breaks(Rejoined(result.val, 3, "x")) = 2
    /\ Len(Rejoined(result.val, 3, "x")) = 9

-----------------------------------------------------------------------------

Unsupported == { "aggregate", "groupby", "sample" }

\* C9: aggregate, groupby and sample always raise NotImplementedError, for
\* every composite, empty or not, and return nothing.
C9_Unsupported ==
    call.op \in Unsupported =>
        /\ ~result.ok
        /\ result.err = "NotImplementedError"
        /\ result.val = << >>

C9_Witness ==
    /\ call.op = "aggregate"
    /\ n = 0
    /\ result.err = "NotImplementedError"

-----------------------------------------------------------------------------

\* C10: no call changes the composite (its paths, their order and contents,
\* its key and value dimensions): rebinding the proxy's data changes the
\* proxy alone, and a call repeated with the same arguments returns the
\* same result, raised exceptions included.
C10_NoMutation ==
    [][ /\ dataset' = dataset
        /\ (call'.op = call.op /\ call'.args = call.args) => result' = result ]_vars

\* The proxy, built on the first path, has been rebound to the last one.
C10_Witness ==
    /\ call.op = "redim"
    /\ ds.bound
    /\ n = 3
    /\ ds.data = dataset.data[3]
    /\ ds.data # dataset.data[1]

====
